---- MODULE Spec2Model ----
(***************************************************************************)
(* A model of the generalized reconciliation engine                        *)
(* (src/reconciliation_general.py): normalization registry, composite-key  *)
(* generation, the matching engine, the condition evaluator, the remarks   *)
(* rule engine and the reconcile orchestrator.                             *)
(*                                                                         *)
(* Strings are sequences of symbols.  The symbols " ", "-", "/", "(", ")", *)
(* ",", "+" and the digits are the characters the code looks at; every     *)
(* other symbol ("p", "Yes", "Reconciled", ...) is an opaque run of        *)
(* letters that no operation splits.  A cell value is a record             *)
(* [t, s, n]: a string (t = "str"), an integer number (t = "num"), a       *)
(* boolean (t = "bool", n in 0..1), NaN (t = "nan") or None (t = "none").  *)
(***************************************************************************)
EXTENDS Integers, Sequences, FiniteSets, TLC

VARIABLES
    pc,             \* position of reconcile(): which phase runs next
    config,         \* the dict load_config returned (NoConfig before)
    primary_df,     \* the primary table (NoTable before it is loaded)
    secondary_dfs,  \* ordered dict of the loaded secondary sheets:
                    \* [names: its keys in insertion order, tables: name -> table]
    sec_idx,        \* loop index of the loop reconcile() is in
    output,         \* the workbook written by ExcelWriter (NoOutput before)
    failure,        \* "none", or the kind of exception that ended the run
    events,         \* the phases executed so far, in order
    keygen,         \* a single call of generate_composite_keys (SpecKeys)
    evalcall        \* a single call into the remarks evaluator (SpecEval)

vars == <<pc, config, primary_df, secondary_dfs, sec_idx, output, failure,
          events, keygen, evalcall>>

(***************************************************************************)
(* Bounds of the model.                                                    *)
(***************************************************************************)
MaxRows == 2         \* rows of a loaded table
MaxStrLen == 2       \* length of a cell string handed to the key generator

(***************************************************************************)
(* Values.                                                                 *)
(***************************************************************************)
Str(s) == [t |-> "str", s |-> s, n |-> 0]
Num(n) == [t |-> "num", s |-> <<>>, n |-> n]
Bool(b) == [t |-> "bool", s |-> <<>>, n |-> IF b THEN 1 ELSE 0]
NaN == [t |-> "nan", s |-> <<>>, n |-> 0]
None == [t |-> "none", s |-> <<>>, n |-> 0]
EmptyStr == Str(<<>>)

\* pd.isna(value)
IsNa(v) == v.t \in {"nan", "none"}

\* value == ""
EqEmptyStr(v) == v.t = "str" /\ v.s = <<>>

\* bool(value): NaN is a non-zero float, hence true
Truthy(v) ==
    CASE v.t = "str" -> v.s # <<>>
      [] v.t = "num" -> v.n # 0
      [] v.t = "bool" -> v.n = 1
      [] v.t = "nan" -> TRUE
      [] OTHER -> FALSE

DigitChars == <<"0", "1", "2", "3", "4", "5", "6", "7", "8", "9">>

RECURSIVE NatToStr(_)
NatToStr(n) ==
    IF n < 10 THEN <<DigitChars[n + 1]>>
    ELSE NatToStr(n \div 10) \o <<DigitChars[(n % 10) + 1]>>

\* str(value), also the text an f-string puts for the value
PyStr(v) ==
    CASE v.t = "str" -> v.s
      [] v.t = "num" -> IF v.n < 0 THEN <<"-">> \o NatToStr(0 - v.n) ELSE NatToStr(v.n)
      [] v.t = "bool" -> IF v.n = 1 THEN <<"True">> ELSE <<"False">>
      [] v.t = "nan" -> <<"nan">>
      [] OTHER -> <<"None">>

(***************************************************************************)
(* String operations used by the normalizers.                              *)
(***************************************************************************)
RECURSIVE LStrip(_)
LStrip(s) == IF s # <<>> /\ Head(s) = " " THEN LStrip(Tail(s)) ELSE s

RECURSIVE RStrip(_)
RStrip(s) ==
    IF s # <<>> /\ s[Len(s)] = " " THEN RStrip(SubSeq(s, 1, Len(s) - 1)) ELSE s

\* str.strip()
Strip(s) == RStrip(LStrip(s))

\* 1-based index of the first ch in s, 0 when there is none
IndexOf(s, ch) ==
    IF \E i \in 1..Len(s) : s[i] = ch
    THEN CHOOSE i \in 1..Len(s) : s[i] = ch /\ \A j \in 1..(i - 1) : s[j] # ch
    ELSE 0

\* str.split(ch)
RECURSIVE Split(_, _)
Split(s, ch) ==
    LET i == IndexOf(s, ch)
    IN IF i = 0 THEN <<s>>
       ELSE <<SubSeq(s, 1, i - 1)>> \o Split(SubSeq(s, i + 1, Len(s)), ch)

\* re.sub(r'\([^)]*\)', '', s): each "(" up to the next ")" is removed
RECURSIVE RemoveBrackets(_)
RemoveBrackets(s) ==
    IF s = <<>> THEN <<>>
    ELSE LET rest == Tail(s)
             close == IndexOf(rest, ")")
         IN IF Head(s) = "(" /\ close # 0
            THEN RemoveBrackets(SubSeq(rest, close + 1, Len(rest)))
            ELSE <<Head(s)>> \o RemoveBrackets(rest)

(***************************************************************************)
(* Normalization registry.                                                 *)
(***************************************************************************)
normalize_policy(value) ==
    IF IsNa(value) \/ EqEmptyStr(value) THEN EmptyStr
    ELSE LET policy_str == Strip(PyStr(value))
             cut == IF IndexOf(policy_str, "-") # 0
                    THEN Strip(Split(policy_str, "-")[1])
                    ELSE policy_str
         IN Str(Strip(RemoveBrackets(cut)))

extract_document(value) ==
    IF IsNa(value) \/ EqEmptyStr(value) THEN None
    ELSE LET invoice_str == Strip(PyStr(value))
             parts == Split(invoice_str, "/")
         IN IF Len(parts) >= 2 THEN Str(Strip(parts[2])) ELSE Str(invoice_str)

normalize_document(value) ==
    IF IsNa(value) \/ EqEmptyStr(value) THEN EmptyStr
    ELSE LET doc_str == Strip(PyStr(value))
         IN IF IndexOf(doc_str, "/") # 0
            THEN Str(Strip(Split(doc_str, "/")[1]))
            ELSE Str(doc_str)

NORMALIZATION_REGISTRY == {"normalize_policy", "extract_document", "normalize_document"}

\* NORMALIZATION_REGISTRY[func_name](value)
RegistryCall(func_name, value) ==
    CASE func_name = "normalize_policy" -> normalize_policy(value)
      [] func_name = "extract_document" -> extract_document(value)
      [] OTHER -> normalize_document(value)

apply_normalization(value, func_name) ==
    IF func_name \in NORMALIZATION_REGISTRY THEN RegistryCall(func_name, value)
    ELSE value

(***************************************************************************)
(* Dictionaries and rows.  A dict (and a row) is a function; a key that    *)
(* is not in its domain is a key the dict does not hold.                   *)
(***************************************************************************)
EmptyDict == <<>>

\* dict.get(key, default) and row.get(column, default)
DictGet(d, k, default) == IF k \in DOMAIN d THEN d[k] ELSE default

\* Mutant of get_column_name: the logical-to-actual map is not consulted
RawColumnName(sheet_config, logical_name) == logical_name

\* get_column_name
get_column_name(sheet_config, logical_name) ==
    DictGet(sheet_config.columns, logical_name, logical_name)

(***************************************************************************)
(* Key generation.                                                         *)
(***************************************************************************)
\* The normalized value of the cell of one key field (policy or document)
NormalizedField(row, sheet_config, logical) ==
    LET actual == DictGet(sheet_config.columns, logical, logical)
        raw == DictGet(row, actual, EmptyStr)
    IN IF logical \in DOMAIN sheet_config.normalizations
       THEN apply_normalization(raw, sheet_config.normalizations[logical])
       ELSE IF IsNa(raw) THEN EmptyStr ELSE Str(Strip(PyStr(raw)))

\* f"{policy_value}|{doc_value}"
CompositeKey(policy_value, doc_value) ==
    PyStr(policy_value) \o <<"|">> \o PyStr(doc_value)

\* if doc_value: the test that decides whether a document column yields a key
EmitsKey(doc_value) == Truthy(doc_value)

RECURSIVE KeysFrom(_, _, _, _)
KeysFrom(row, sheet_config, policy_value, doc_columns) ==
    IF doc_columns = <<>> THEN <<>>
    ELSE LET doc_logical == Head(doc_columns)
             doc_actual == DictGet(sheet_config.columns, doc_logical, doc_logical)
             doc_value == NormalizedField(row, sheet_config, doc_logical)
             rest == KeysFrom(row, sheet_config, policy_value, Tail(doc_columns))
         IN IF EmitsKey(doc_value)
            THEN <<[key |-> CompositeKey(policy_value, doc_value),
                    col |-> doc_actual]>> \o rest
            ELSE rest

generate_composite_keys(row, sheet_config) ==
    KeysFrom(row, sheet_config,
             NormalizedField(row, sheet_config, sheet_config.key_fields.policy_column),
             sheet_config.key_fields.document_columns)

(***************************************************************************)
(* Tables.  A table (DataFrame) is its set of column names and its rows in *)
(* order; every row is a function on the table's columns.                  *)
(***************************************************************************)
Range(f) == {f[i] : i \in DOMAIN f}

\* Mutant of SetColumn: a value is appended to the text the column already holds
AppendToColumn(df, col, values) ==
    [cols |-> df.cols \cup {col},
     rows |-> [i \in DOMAIN df.rows |->
                 (col :> IF col \in df.cols
                         THEN Str(PyStr(df.rows[i][col]) \o PyStr(values[i]))
                         ELSE values[i]) @@ df.rows[i]]]

\* Mutant of SetColumn: the result is a new table that holds the column alone
KeepOnlyColumn(df, col, values) ==
    [cols |-> {col}, rows |-> [i \in DOMAIN df.rows |-> (col :> values[i])]]

\* df[col] = values: the column is added, or replaced when the table has it
SetColumn(df, col, values) ==
    [cols |-> df.cols \cup {col},
     rows |-> [i \in DOMAIN df.rows |-> (col :> values[i]) @@ df.rows[i]]]

\* df.drop(columns=[col])
DropColumns(df, dropped) ==
    [cols |-> df.cols \ dropped,
     rows |-> [i \in DOMAIN df.rows |->
                 [c \in (df.cols \ dropped) |-> df.rows[i][c]]]]

\* Column names clean_dataframe removes: those starting with "Unnamed" and
\* those ending in ".<digits>".  Of the column names of the model these are:
UnnamedOrDuplicate == {"Unnamed: 0", "Amt.1"}

clean_dataframe(df) == DropColumns(df, df.cols \cap UnnamedOrDuplicate)

(***************************************************************************)
(* Matching engine.                                                        *)
(***************************************************************************)
\* The key set perform_matching builds for one secondary sheet
SecondaryKeySet(sec_df, sec_config) ==
    UNION {{k.key : k \in Range(generate_composite_keys(sec_df.rows[i], sec_config))} :
           i \in DOMAIN sec_df.rows}

\* Mutant of ScanKeys: the loop does not break, so the last hit wins
RECURSIVE ScanKeysLastHit(_, _)
ScanKeysLastHit(keys, key_set) ==
    IF keys = <<>> THEN <<>>
    ELSE LET later == ScanKeysLastHit(Tail(keys), key_set)
         IN IF later # <<>> THEN later
            ELSE IF Head(keys).key \in key_set THEN <<Head(keys)>>
            ELSE <<>>

\* Mutant of SecondaryKeySets: one key set shared by all secondary sheets
SharedKeySet(secondaries, names, sheets_config) ==
    [n \in Range(names) |->
        UNION {SecondaryKeySet(secondaries[m], sheets_config[m]) : m \in Range(names)}]

\* secondary_key_sets: a separate key set for each secondary sheet
SecondaryKeySets(secondaries, names, sheets_config) ==
    [n \in Range(names) |-> SecondaryKeySet(secondaries[n], sheets_config[n])]

\* for key, col_name in keys: if key in secondary_key_sets[sec_name]: ... break
RECURSIVE ScanKeys(_, _)
ScanKeys(keys, key_set) ==
    IF keys = <<>> THEN <<>>
    ELSE IF Head(keys).key \in key_set THEN <<Head(keys)>>
    ELSE ScanKeys(Tail(keys), key_set)

\* The transaction-type value of a hit on the key of column col_name
TransTypeOf(trans_type_labels, col_name) ==
    DictGet(trans_type_labels, col_name, Str(<<col_name>>))

\* Mutant of KeepFirstMatch: every matching sheet overwrites matched_key
KeepLastMatch(matched_key, key) == key

\* if not matched_key: matched_key = key
KeepFirstMatch(matched_key, key) == IF matched_key = <<>> THEN key ELSE matched_key

\* One primary row against the secondary sheets, in the order of secondary_dfs
RECURSIVE MatchSheets(_, _, _, _, _)
MatchSheets(keys, names, key_sets, trans_type_labels, acc) ==
    IF names = <<>> THEN acc
    ELSE LET sec_name == Head(names)
             hit == ScanKeys(keys, key_sets[sec_name])
             sec_matched == hit # <<>>
             sec_trans_type == IF sec_matched
                               THEN TransTypeOf(trans_type_labels, hit[1].col)
                               ELSE EmptyStr
             next == [matched_key |-> IF sec_matched
                                      THEN KeepFirstMatch(acc.matched_key, hit[1].key)
                                      ELSE acc.matched_key,
                      overall_match |-> acc.overall_match \/ sec_matched,
                      availability |-> (sec_name :> Str(<<IF sec_matched THEN "Yes" ELSE "No">>))
                                         @@ acc.availability,
                      trans_type |-> (sec_name :> sec_trans_type) @@ acc.trans_type]
         IN MatchSheets(keys, Tail(names), key_sets, trans_type_labels, next)

MatchRow(row, primary_config, names, key_sets) ==
    MatchSheets(generate_composite_keys(row, primary_config), names, key_sets,
                DictGet(primary_config, "trans_type_column_labels", EmptyDict),
                [matched_key |-> <<>>, overall_match |-> FALSE,
                 availability |-> EmptyDict, trans_type |-> EmptyDict])

\* The per-sheet output columns of one kind ("availability" or "trans_type")
RECURSIVE AddSheetColumns(_, _, _, _, _)
AddSheetColumns(df, names, output_cols, kind, matches) ==
    IF names = <<>> THEN df
    ELSE LET sec_name == Head(names)
             configured == /\ sec_name \in DOMAIN output_cols
                           /\ kind \in DOMAIN output_cols[sec_name]
             with == IF configured
                     THEN SetColumn(df, output_cols[sec_name][kind],
                                    [i \in DOMAIN matches |-> matches[i][kind][sec_name]])
                     ELSE df
         IN AddSheetColumns(with, Tail(names), output_cols, kind, matches)

\* perform_matching(primary_df, secondary_dfs, config); names is the order of
\* secondary_dfs' keys
perform_matching(primary, secondaries, names, cfg) ==
    LET matching_config == cfg.matching
        sheets_config == cfg.sheets
        primary_config == sheets_config[matching_config.primary_sheet]
        output_cols == DictGet(matching_config, "output_columns", EmptyDict)
        key_sets == SecondaryKeySets(secondaries, names, sheets_config)
        matches == [i \in DOMAIN primary.rows |->
                      MatchRow(primary.rows[i], primary_config, names, key_sets)]
        df1 == SetColumn(primary, "_matched_key",
                         [i \in DOMAIN matches |-> Str(matches[i].matched_key)])
        df2 == SetColumn(df1, "_has_match",
                         [i \in DOMAIN matches |-> Bool(matches[i].overall_match)])
        df3 == AddSheetColumns(df2, names, output_cols, "availability", matches)
    IN AddSheetColumns(df3, names, output_cols, "trans_type", matches)

(***************************************************************************)
(* Condition evaluator.  Numbers are integers; a tolerance is given in     *)
(* hundredths (the default 0.01 is 1).                                     *)
(***************************************************************************)
RECURSIVE RemoveAll(_, _)
RemoveAll(s, chars) ==
    IF s = <<>> THEN <<>>
    ELSE IF Head(s) \in chars THEN RemoveAll(Tail(s), chars)
    ELSE <<Head(s)>> \o RemoveAll(Tail(s), chars)

DigitValue(ch) == CHOOSE d \in 0..9 : DigitChars[d + 1] = ch

RECURSIVE DigitsToNat(_, _)
DigitsToNat(s, acc) ==
    IF s = <<>> THEN acc ELSE DigitsToNat(Tail(s), acc * 10 + DigitValue(Head(s)))

IsDigits(s) == s # <<>> /\ \A i \in 1..Len(s) : s[i] \in Range(DigitChars)

\* float(value_str), 0 on ValueError
FloatOrZero(s) ==
    IF IsDigits(s) THEN DigitsToNat(s, 0)
    ELSE IF s # <<>> /\ Head(s) = "-" /\ IsDigits(Tail(s)) THEN 0 - DigitsToNat(Tail(s), 0)
    ELSE IF s # <<>> /\ Head(s) = "+" /\ IsDigits(Tail(s)) THEN DigitsToNat(Tail(s), 0)
    ELSE 0

parse_numeric(value) ==
    IF IsNa(value) \/ EqEmptyStr(value) THEN 0
    ELSE LET value_str == Strip(RemoveAll(PyStr(value), {",", " "}))
         IN IF value_str = <<>> \/ value_str = <<"-">> THEN 0
            ELSE FloatOrZero(value_str)

is_empty_or_null(value) == IsNa(value) \/ EqEmptyStr(value)

\* Mutant of IsIntOrFloat: every right-hand value counts as numeric
IsAnyValue(v) == TRUE

\* isinstance(value, (int, float))
IsIntOrFloat(v) == v.t \in {"num", "bool", "nan"}

\* left == right of Python
PyEq(a, b) ==
    CASE a.t = "nan" \/ b.t = "nan" -> FALSE
      [] a.t \in {"num", "bool"} /\ b.t \in {"num", "bool"} -> a.n = b.n
      [] a.t = "str" /\ b.t = "str" -> a.s = b.s
      [] a.t = "none" /\ b.t = "none" -> TRUE
      [] OTHER -> FALSE

Abs(x) == IF x < 0 THEN 0 - x ELSE x

\* matched_row is <<>> (None) or <<row>>
get_value_from_operand(operand, current_row, current_sheet_name, sheets_config, matched_row) ==
    IF "value" \in DOMAIN operand THEN operand.value
    ELSE LET sheet_name == DictGet(operand, "sheet", current_sheet_name)
             column_ref == operand.column
         IN IF sheet_name # current_sheet_name /\ matched_row = <<>> THEN None
            ELSE LET row == IF sheet_name = current_sheet_name
                            THEN current_row ELSE matched_row[1]
                     actual_col == get_column_name(sheets_config[sheet_name], column_ref)
                 IN IF actual_col \in DOMAIN row THEN row[actual_col]
                    ELSE IF column_ref \in DOMAIN row THEN row[column_ref]
                    ELSE None

ConditionKinds == {"equals", "approx_equals", "less_than", "greater_than", "empty",
                   "not_empty", "key_exists_in", "has_match", "no_match", "cross_sheet_or"}

\* Mutant of UnrecognizedKind: a kind the evaluator does not know counts as met
UnrecognizedKindHolds(condition) == TRUE

\* The final return of evaluate_condition, reached by a kind that is none of
\* ConditionKinds and by a condition without a type
UnrecognizedKind(condition) == FALSE

RECURSIVE evaluate_condition(_, _, _, _, _)
evaluate_condition(condition, current_row, current_sheet_name, sheets_config, matched_row) ==
    LET cond_type == DictGet(condition, "type", "")
        Operand(side) == get_value_from_operand(condition[side], current_row,
                             current_sheet_name, sheets_config, matched_row)
    IN CASE cond_type = "equals" ->
              LET right_val == Operand("right")
                  left_val == IF IsIntOrFloat(right_val)
                              THEN Num(parse_numeric(Operand("left")))
                              ELSE Operand("left")
              IN PyEq(left_val, right_val)
         [] cond_type = "approx_equals" ->
              Abs(parse_numeric(Operand("left")) - parse_numeric(Operand("right"))) * 100
                  < DictGet(condition, "tolerance", 1)
         [] cond_type = "less_than" ->
              parse_numeric(Operand("left")) < parse_numeric(Operand("right"))
         [] cond_type = "greater_than" ->
              parse_numeric(Operand("left")) > parse_numeric(Operand("right"))
         [] cond_type = "empty" -> is_empty_or_null(Operand("left"))
         [] cond_type = "not_empty" -> ~is_empty_or_null(Operand("left"))
         [] cond_type = "key_exists_in" -> matched_row # <<>>
         [] cond_type = "has_match" -> Truthy(DictGet(current_row, "_has_match", Bool(FALSE)))
         [] cond_type = "no_match" -> ~Truthy(DictGet(current_row, "_has_match", Bool(FALSE)))
         [] cond_type = "cross_sheet_or" ->
              LET sub_conditions == DictGet(condition, "conditions", <<>>)
              IN \E i \in DOMAIN sub_conditions :
                    evaluate_condition(sub_conditions[i], current_row,
                        current_sheet_name, sheets_config, matched_row)
         [] OTHER -> UnrecognizedKind(condition)

evaluate_conditions(conditions, condition_logic, current_row, current_sheet_name, sheets_config, matched_row) ==
    LET results == [i \in DOMAIN conditions |->
                      evaluate_condition(conditions[i], current_row,
                          current_sheet_name, sheets_config, matched_row)]
    IN IF conditions = <<>> THEN TRUE
       ELSE IF condition_logic = "OR" THEN \E i \in DOMAIN results : results[i]
       ELSE \A i \in DOMAIN results : results[i]

(***************************************************************************)
(* Remarks rule engine.                                                    *)
(***************************************************************************)
\* Mutant of AddRowKeys: a later row replaces the entry of a key
RECURSIVE AddRowKeysLastWins(_, _, _)
AddRowKeysLastWins(key_map, keys, row) ==
    IF keys = <<>> THEN key_map
    ELSE AddRowKeysLastWins((Head(keys).key :> row) @@ key_map, Tail(keys), row)

\* for key, col in keys: if key not in key_map: key_map[key] = row
RECURSIVE AddRowKeys(_, _, _)
AddRowKeys(key_map, keys, row) ==
    IF keys = <<>> THEN key_map
    ELSE AddRowKeys(IF Head(keys).key \in DOMAIN key_map THEN key_map
                    ELSE key_map @@ (Head(keys).key :> row),
                    Tail(keys), row)

RECURSIVE KeyMapFrom(_, _, _)
KeyMapFrom(rows, sheet_config, key_map) ==
    IF rows = <<>> THEN key_map
    ELSE KeyMapFrom(Tail(rows), sheet_config,
                    AddRowKeys(key_map, generate_composite_keys(Head(rows), sheet_config),
                               Head(rows)))

build_key_to_row_map(df, sheet_config) == KeyMapFrom(df.rows, sheet_config, EmptyDict)

\* for key, col in current_keys: if key in key_map: matched_row = key_map[key]; break
RECURSIVE ScanKeyMap(_, _)
ScanKeyMap(current_keys, key_map) ==
    IF current_keys = <<>> THEN <<>>
    ELSE IF Head(current_keys).key \in DOMAIN key_map
    THEN <<key_map[Head(current_keys).key]>>
    ELSE ScanKeyMap(Tail(current_keys), key_map)

\* Mutant of ProbeSheets: the loops are swapped, so the highest-priority key
\* that any sheet holds wins
RECURSIVE ProbeKeysFirst(_, _, _)
ProbeKeysFirst(current_keys, names, key_maps) ==
    IF current_keys = <<>> THEN <<>>
    ELSE LET key == Head(current_keys).key
             holders == {i \in DOMAIN names : key \in DOMAIN key_maps[names[i]]}
             first == CHOOSE i \in holders : \A j \in holders : i <= j
         IN IF holders # {} THEN <<key_maps[names[first]][key]>>
            ELSE ProbeKeysFirst(Tail(current_keys), names, key_maps)

\* for name, key_map in key_maps.items(): ...; if matched_row is not None: break
RECURSIVE ProbeSheets(_, _, _)
ProbeSheets(current_keys, names, key_maps) ==
    IF names = <<>> THEN <<>>
    ELSE LET hit == ScanKeyMap(current_keys, key_maps[Head(names)])
         IN IF hit # <<>> THEN hit
            ELSE ProbeSheets(current_keys, Tail(names), key_maps)

\* for name, key_map in key_maps.items(): if matched_key in key_map: ...; break
RECURSIVE ProbeMatchedKey(_, _, _)
ProbeMatchedKey(matched_key, names, key_maps) ==
    IF names = <<>> THEN <<>>
    ELSE IF matched_key \in DOMAIN key_maps[Head(names)]
    THEN <<key_maps[Head(names)][matched_key]>>
    ELSE ProbeMatchedKey(matched_key, Tail(names), key_maps)

\* The matched row of one row: <<>> (None) or <<row>>
ResolveMatchedRow(row, sheet_config, names, key_maps) ==
    LET direct == ProbeSheets(generate_composite_keys(row, sheet_config), names, key_maps)
    IN IF direct # <<>> THEN direct
       ELSE IF "_matched_key" \in DOMAIN row /\ Truthy(row["_matched_key"])
                 /\ row["_matched_key"].t = "str"
       THEN ProbeMatchedKey(row["_matched_key"].s, names, key_maps)
       ELSE <<>>

\* Whether one rule is satisfied by the row
RuleHolds(rule, row, sheet_name, sheets_config, matched_row) ==
    evaluate_conditions(DictGet(rule, "conditions", <<>>),
                        DictGet(rule, "condition_logic", "AND"),
                        row, sheet_name, sheets_config, matched_row)

\* Mutant of FirstRuleRemark: the loop does not break, so the last satisfied
\* rule wins
RECURSIVE LastRuleRemark(_, _, _, _, _, _)
LastRuleRemark(rules, default_remark, row, sheet_name, sheets_config, matched_row) ==
    IF rules = <<>> THEN default_remark
    ELSE LET later == LastRuleRemark(Tail(rules), default_remark, row, sheet_name,
                                     sheets_config, matched_row)
         IN IF later # default_remark THEN later
            ELSE IF RuleHolds(Head(rules), row, sheet_name, sheets_config, matched_row)
            THEN Head(rules).remark
            ELSE default_remark

\* for rule in rules: if evaluate_conditions(...): remark = rule['remark']; break
RECURSIVE FirstRuleRemark(_, _, _, _, _, _)
FirstRuleRemark(rules, default_remark, row, sheet_name, sheets_config, matched_row) ==
    IF rules = <<>> THEN default_remark
    ELSE IF RuleHolds(Head(rules), row, sheet_name, sheets_config, matched_row)
    THEN Head(rules).remark
    ELSE FirstRuleRemark(Tail(rules), default_remark, row, sheet_name,
                         sheets_config, matched_row)

\* Mutant of OtherSheets: the sheet under evaluation is probed as well
AllSheets(data_names, sheet_name) == data_names

\* The other sheets of sheets_data, in its order
OtherSheets(data_names, sheet_name) == SelectSeq(data_names, LAMBDA n : n # sheet_name)

\* key_maps of apply_remarks_rules
KeyMaps(sheet_name, cfg, data_names, sheets_data) ==
    [n \in Range(OtherSheets(data_names, sheet_name)) |->
        build_key_to_row_map(sheets_data[n], cfg.sheets[n])]

\* apply_remarks_rules(df, sheet_name, config, sheets_data); data_names is the
\* order of sheets_data's keys
apply_remarks_rules(df, sheet_name, cfg, data_names, sheets_data) ==
    LET rules_config == DictGet(cfg.remarks_rules, sheet_name, EmptyDict)
    IN IF DOMAIN rules_config = {} THEN df
       ELSE LET output_col == DictGet(rules_config, "output_column", "Remarks")
                rules == DictGet(rules_config, "rules", <<>>)
                default_remark == DictGet(rules_config, "default_remark",
                                          Str(<<"Not Reconciled">>))
                others == OtherSheets(data_names, sheet_name)
                key_maps == KeyMaps(sheet_name, cfg, data_names, sheets_data)
                remarks_list ==
                    [i \in DOMAIN df.rows |->
                        FirstRuleRemark(rules, default_remark, df.rows[i], sheet_name,
                            cfg.sheets,
                            ResolveMatchedRow(df.rows[i], cfg.sheets[sheet_name],
                                              others, key_maps))]
            IN SetColumn(df, output_col, remarks_list)

(***************************************************************************)
(* Inputs: the configuration files and the workbooks a run may be given.   *)
(***************************************************************************)
Col(sheet, column) == [sheet |-> sheet, column |-> column]
OwnCol(column) == [column |-> column]
Lit(value) == [value |-> value]
Label(name) == Str(<<name>>)

SheetsSection ==
    [faeu |-> [columns |-> [policy |-> "Policy", inv_a |-> "InvA", inv_b |-> "InvB",
                            premium |-> "Prem"],
               key_fields |-> [policy_column |-> "policy",
                               document_columns |-> <<"inv_a", "inv_b">>],
               normalizations |-> [policy |-> "normalize_policy",
                                   inv_a |-> "extract_document",
                                   inv_b |-> "extract_document"],
               trans_type_column_labels |-> [InvA |-> Label("Insurer Invoice")]],
     ins1 |-> [columns |-> [policy |-> "Policy", doc |-> "Doc", amount |-> "Amt"],
               key_fields |-> [policy_column |-> "policy", document_columns |-> <<"doc">>],
               normalizations |-> [policy |-> "normalize_policy",
                                   doc |-> "normalize_document"]],
     ins2 |-> [columns |-> [policy |-> "Policy", doc |-> "Doc", amount |-> "Amt"],
               key_fields |-> [policy_column |-> "policy", document_columns |-> <<"doc">>],
               normalizations |-> [policy |-> "normalize_policy",
                                   doc |-> "normalize_document"]]]

MatchingSection ==
    [primary_sheet |-> "faeu",
     secondary_sheets |-> <<"ins1", "ins2">>,
     output_columns |-> [ins1 |-> [availability |-> "Avail1", trans_type |-> "Trans1"],
                         ins2 |-> [availability |-> "Avail2", trans_type |-> "Trans2"]]]

AmountMatchesPremium ==
    [type |-> "approx_equals", left |-> Col("ins1", "amount"), right |-> Col("faeu", "premium")]

\* A broad rule declared before a narrow one
RulesA ==
    [faeu |-> [output_column |-> "Remarks", default_remark |-> Label("Not Available"),
               rules |-> <<[conditions |-> <<[type |-> "has_match"]>>,
                            condition_logic |-> "AND", remark |-> Label("Available")],
                           [conditions |-> <<[type |-> "key_exists_in"], AmountMatchesPremium>>,
                            condition_logic |-> "AND", remark |-> Label("Reconciled")]>>],
     ins1 |-> [output_column |-> "Remarks", default_remark |-> Label("Not Reconciled"),
               rules |-> <<[conditions |-> <<[type |-> "key_exists_in"], AmountMatchesPremium>>,
                            condition_logic |-> "AND", remark |-> Label("Reconciled")]>>],
     ins2 |-> [output_column |-> "Remarks", default_remark |-> Label("Unseen"),
               rules |-> <<[conditions |-> <<[type |-> "equals",
                                              left |-> Col("faeu", "Avail2"),
                                              right |-> Lit(Label("Yes"))]>>,
                            remark |-> Label("Seen")]>>]]

\* Rules that refer to the second insurer's sheet; that sheet has no rule set
RulesB ==
    [faeu |-> [output_column |-> "Remarks", default_remark |-> Label("Not Available"),
               rules |-> <<[conditions |-> <<[type |-> "not_empty",
                                              left |-> Col("ins2", "amount")]>>,
                            condition_logic |-> "AND", remark |-> Label("In Second")],
                           [conditions |-> <<[type |-> "equals", left |-> OwnCol("Avail1"),
                                              right |-> Lit(Label("Yes"))],
                                             AmountMatchesPremium>>,
                            condition_logic |-> "AND", remark |-> Label("Reconciled")],
                           [conditions |-> <<[type |-> "cross_sheet_or",
                                              conditions |->
                                                <<[type |-> "equals", left |-> OwnCol("Avail1"),
                                                   right |-> Lit(Label("Yes"))],
                                                  [type |-> "equals", left |-> OwnCol("Avail2"),
                                                   right |-> Lit(Label("Yes"))]>>]>>,
                            condition_logic |-> "AND", remark |-> Label("Mismatch")]>>],
     ins1 |-> [output_column |-> "Remarks", default_remark |-> Label("Not Reconciled"),
               rules |-> <<[conditions |-> <<[type |-> "not_empty",
                                              left |-> Col("ins2", "policy")],
                                             [type |-> "greater_than",
                                              left |-> Col("ins2", "amount"),
                                              right |-> Lit(Num(0))]>>,
                            condition_logic |-> "OR", remark |-> Label("In Second")],
                           [conditions |-> <<[type |-> "key_exists_in"]>>,
                            condition_logic |-> "AND", remark |-> Label("Matched")]>>]]

\* Rules of the primary sheet that read the remark of the first insurer's row,
\* and rules of the second insurer's sheet that read an availability column
RulesC ==
    [faeu |-> [output_column |-> "Remarks", default_remark |-> Label("Not Available"),
               rules |-> <<[conditions |-> <<[type |-> "equals",
                                              left |-> Col("ins1", "Remarks"),
                                              right |-> Lit(Label("Reconciled"))]>>,
                            condition_logic |-> "AND", remark |-> Label("Insurer Reconciled")],
                           [conditions |-> <<[type |-> "has_match"]>>,
                            condition_logic |-> "AND", remark |-> Label("Available")]>>],
     ins1 |-> [output_column |-> "Remarks", default_remark |-> Label("Not Reconciled"),
               rules |-> <<[conditions |-> <<[type |-> "key_exists_in"], AmountMatchesPremium>>,
                            condition_logic |-> "AND", remark |-> Label("Reconciled")]>>],
     ins2 |-> [output_column |-> "Remarks", default_remark |-> Label("Unseen"),
               rules |-> <<[conditions |-> <<[type |-> "equals",
                                              left |-> Col("faeu", "Avail1"),
                                              right |-> Lit(Label("Yes"))]>>,
                            remark |-> Label("Also In First")]>>]]

ValidConfigs ==
    {[sheets |-> SheetsSection, matching |-> MatchingSection, remarks_rules |-> r] :
        r \in {RulesA, RulesB, RulesC}}

RequiredSections == <<"sheets", "matching", "remarks_rules">>

\* A configuration file: a valid configuration, or one lacking some sections
ConfigFiles ==
    {[k \in present |-> c[k]] : c \in ValidConfigs,
                                present \in SUBSET Range(RequiredSections)}

\* load_config: the first required section the file lacks, "" when it has all
RECURSIVE FirstMissing(_, _)
FirstMissing(file, sections) ==
    IF sections = <<>> THEN ""
    ELSE IF Head(sections) \notin DOMAIN file THEN Head(sections)
    ELSE FirstMissing(file, Tail(sections))

MissingSection(file) == FirstMissing(file, RequiredSections)

\* Rows of the primary workbook.  Keys: P1 p|b (InvA) and p|c (InvB);
\* P2 p|b (InvB); P3 none
PrimaryRowPool ==
    {[Policy |-> Str(<<"p", " ", "-", " ", "x">>), InvA |-> Str(<<"d", "/", "b">>),
      InvB |-> Str(<<"c">>), Prem |-> Num(5)],
     [Policy |-> Str(<<"p">>), InvA |-> NaN, InvB |-> Str(<<"b">>), Prem |-> Num(7)],
     [Policy |-> Str(<<"p">>), InvA |-> NaN, InvB |-> EmptyStr, Prem |-> Num(5)]}

\* Rows of the first insurer's workbook.  Keys: p|b, p|c, q|b
Ins1RowPool ==
    {("Unnamed: 0" :> NaN) @@ r :
        r \in {[Policy |-> Str(<<"p">>), Doc |-> Str(<<"b", "/", "1">>), Amt |-> Num(5)],
               [Policy |-> Str(<<"p", "(", "e", ")">>), Doc |-> Str(<<"c">>), Amt |-> Num(7)],
               [Policy |-> Str(<<"q">>), Doc |-> Str(<<"b">>), Amt |-> Num(7)]}}

\* Rows of the second insurer's workbook.  Keys: p|c, p|b
Ins2RowPool ==
    {[Policy |-> Str(<<"p">>), Doc |-> Str(<<"c", "/", "2">>), Amt |-> Num(5)],
     [Policy |-> Str(<<"p", " ">>), Doc |-> Str(<<"b">>), Amt |-> NaN]}

SeqsUpTo(S, n) == UNION {[1..k -> S] : k \in 0..n}

Workbook(cols, rows) == [cols |-> cols, rows |-> rows]

PrimaryFiles ==
    {Workbook({"Policy", "InvA", "InvB", "Prem"}, rows) :
        rows \in SeqsUpTo(PrimaryRowPool, MaxRows)}

SecondaryFiles(sec_name) ==
    IF sec_name = "ins1"
    THEN {Workbook({"Unnamed: 0", "Policy", "Doc", "Amt"}, rows) :
            rows \in SeqsUpTo(Ins1RowPool, MaxRows)}
    ELSE {Workbook({"Policy", "Doc", "Amt"}, rows) :
            rows \in SeqsUpTo(Ins2RowPool, MaxRows)}

(***************************************************************************)
(* The orchestrator, reconcile().                                          *)
(***************************************************************************)
NoConfig == [absent |-> TRUE]
NoTable == [absent |-> TRUE]
NoOutput == [absent |-> TRUE]
EmptyOrderedDict == [names |-> <<>>, tables |-> EmptyDict]

\* d[name] = table on an ordered dict
OdPut(od, name, table) ==
    [names |-> IF name \in Range(od.names) THEN od.names ELSE Append(od.names, name),
     tables |-> (name :> table) @@ od.tables]

\* sheets_data: the primary table first, then the loaded secondary tables; it
\* holds the same table objects as primary_df and secondary_dfs
SheetsDataNames == <<config.matching.primary_sheet>> \o secondary_dfs.names

\* Mutant of SheetsData: the secondary tables are copies made before Step 2
SheetsDataSnapshot ==
    (config.matching.primary_sheet :> primary_df) @@
    [n \in DOMAIN secondary_dfs.tables |->
        DropColumns(secondary_dfs.tables[n], secondary_dfs.tables[n].cols \cap {"Remarks"})]

SheetsData == (config.matching.primary_sheet :> primary_df) @@ secondary_dfs.tables

\* str.capitalize() of a sheet name
Capitalize(name) ==
    CASE name = "ins1" -> "Ins1"
      [] name = "ins2" -> "Ins2"
      [] name = "faeu" -> "Faeu"
      [] OTHER -> name

Event(op, sheet) == [op |-> op, sheet |-> sheet]

PipelineInit ==
    /\ pc = "start"
    /\ config = NoConfig
    /\ primary_df = NoTable
    /\ secondary_dfs = EmptyOrderedDict
    /\ sec_idx = 1
    /\ output = NoOutput
    /\ failure = "none"
    /\ events = <<>>

Init == PipelineInit /\ keygen = [pc |-> "idle"] /\ evalcall = [pc |-> "idle"]

\* config = load_config(config_path)
LoadConfig ==
    /\ pc = "start"
    /\ \E file \in ConfigFiles :
          IF MissingSection(file) = ""
          THEN /\ config' = file
               /\ pc' = "load_primary"
               /\ failure' = failure
               /\ events' = Append(events, Event("config", ""))
          ELSE /\ config' = config
               /\ pc' = "aborted"
               /\ failure' = "config"
               /\ events' = Append(events, Event("fail", ""))
    /\ UNCHANGED <<primary_df, secondary_dfs, sec_idx, output, keygen, evalcall>>

\* Where reconcile() goes after the load at position idx of secondary_names
AfterSecondary(idx) ==
    IF idx >= Len(config.matching.secondary_sheets) THEN "matching" ELSE "load_secondary"

\* primary_df = clean_dataframe(pd.read_excel(faeu_file))
LoadPrimary ==
    /\ pc = "load_primary"
    /\ \E file \in PrimaryFiles :
          primary_df' = clean_dataframe(file)
    /\ pc' = AfterSecondary(0)
    /\ sec_idx' = 1
    /\ events' = Append(events, Event("load", config.matching.primary_sheet))
    /\ UNCHANGED <<config, secondary_dfs, output, failure, keygen, evalcall>>

\* pd.read_excel(faeu_file) throws
LoadPrimaryFails ==
    /\ pc = "load_primary"
    /\ pc' = "aborted"
    /\ failure' = "load"
    /\ events' = Append(events, Event("fail", config.matching.primary_sheet))
    /\ UNCHANGED <<config, primary_df, secondary_dfs, sec_idx, output, keygen, evalcall>>

\* A file is found for the secondary sheet and is read
LoadSecondary ==
    /\ pc = "load_secondary"
    /\ LET sec_name == config.matching.secondary_sheets[sec_idx]
       IN /\ \E file \in SecondaryFiles(sec_name) :
                secondary_dfs' = OdPut(secondary_dfs, sec_name, clean_dataframe(file))
          /\ events' = Append(events, Event("load", sec_name))
    /\ pc' = AfterSecondary(sec_idx)
    /\ sec_idx' = IF AfterSecondary(sec_idx) = "load_secondary" THEN sec_idx + 1 ELSE 1
    /\ UNCHANGED <<config, primary_df, output, failure, keygen, evalcall>>

\* Mutant of OnSecondaryLoadError: the exception is swallowed and the sheet
\* skipped like one without a file
ContinueAfterLoadError(idx) == AfterSecondary(idx)

\* What a secondary load that throws does to the run: the except clause re-raises
OnSecondaryLoadError(idx) == "aborted"

\* A file is found for the secondary sheet and reading it throws
LoadSecondaryFails ==
    /\ pc = "load_secondary"
    /\ pc' = OnSecondaryLoadError(sec_idx)
    /\ failure' = "load"
    /\ sec_idx' = IF pc' = "load_secondary" THEN sec_idx + 1 ELSE 1
    /\ events' = Append(events, Event("fail", config.matching.secondary_sheets[sec_idx]))
    /\ UNCHANGED <<config, primary_df, secondary_dfs, output, keygen, evalcall>>

\* Mutant of AfterSkip: an empty table stands in for the sheet without a file
AfterSkipEmptyTable(dfs, sec_name) == OdPut(dfs, sec_name, [cols |-> {}, rows |-> <<>>])

\* secondary_dfs after a sheet for which no file is found: nothing is stored
AfterSkip(dfs, sec_name) == dfs

\* No file is found for the secondary sheet: a warning, and the next sheet
SkipSecondary ==
    /\ pc = "load_secondary"
    /\ LET sec_name == config.matching.secondary_sheets[sec_idx]
       IN /\ secondary_dfs' = AfterSkip(secondary_dfs, sec_name)
          /\ events' = Append(events, Event("skip", sec_name))
    /\ pc' = AfterSecondary(sec_idx)
    /\ sec_idx' = IF AfterSecondary(sec_idx) = "load_secondary" THEN sec_idx + 1 ELSE 1
    /\ UNCHANGED <<config, primary_df, output, failure, keygen, evalcall>>

\* Mutant of AfterMatching: Step 3 runs right after matching
PrimaryRemarksFirst(dfs) == "remarks_primary"

\* The phase that follows matching: Step 2, the remarks of the secondary sheets
\* (an empty loop when none is loaded), and only then Step 3
AfterMatching(dfs) == IF dfs.names = <<>> THEN "remarks_primary" ELSE "remarks_secondary"

\* Step 1: primary_df = perform_matching(primary_df, secondary_dfs, config)
PerformMatching ==
    /\ pc = "matching"
    /\ primary_df' = perform_matching(primary_df, secondary_dfs.tables,
                                      secondary_dfs.names, config)
    /\ pc' = AfterMatching(secondary_dfs)
    /\ sec_idx' = 1
    /\ events' = Append(events, Event("match", config.matching.primary_sheet))
    /\ UNCHANGED <<config, secondary_dfs, output, failure, keygen, evalcall>>

\* Step 2, one iteration: secondary_dfs[sec_name] = apply_remarks_rules(...)
RemarksSecondary ==
    /\ pc = "remarks_secondary"
    /\ LET sec_name == secondary_dfs.names[sec_idx]
       IN /\ secondary_dfs' =
                OdPut(secondary_dfs, sec_name,
                      apply_remarks_rules(secondary_dfs.tables[sec_name], sec_name,
                                          config, SheetsDataNames, SheetsData))
          /\ events' = Append(events, Event("remarks", sec_name))
    /\ pc' = IF sec_idx >= Len(secondary_dfs.names)
             THEN "remarks_primary" ELSE "remarks_secondary"
    /\ sec_idx' = IF sec_idx >= Len(secondary_dfs.names) THEN 1 ELSE sec_idx + 1
    /\ UNCHANGED <<config, primary_df, output, failure, keygen, evalcall>>

\* Step 3: primary_df = apply_remarks_rules(primary_df, primary_name, ...)
RemarksPrimary ==
    /\ pc = "remarks_primary"
    /\ primary_df' = apply_remarks_rules(primary_df, config.matching.primary_sheet,
                                         config, SheetsDataNames, SheetsData)
    /\ pc' = "write"
    /\ events' = Append(events, Event("remarks", config.matching.primary_sheet))
    /\ UNCHANGED <<config, secondary_dfs, sec_idx, output, failure, keygen, evalcall>>

InternalCols == {"_matched_key", "_has_match"}

\* The internal columns are dropped, the tables cleaned and the workbook written
WriteOutput ==
    /\ pc = "write"
    /\ LET final_primary == clean_dataframe(DropColumns(primary_df,
                                                primary_df.cols \cap InternalCols))
           final_secondary == [names |-> secondary_dfs.names,
                               tables |-> [n \in DOMAIN secondary_dfs.tables |->
                                             clean_dataframe(secondary_dfs.tables[n])]]
       IN /\ primary_df' = final_primary
          /\ secondary_dfs' = final_secondary
          /\ output' = ("FAEU" :> final_primary) @@
                       [s \in {Capitalize(n) : n \in Range(final_secondary.names)} |->
                          final_secondary.tables[CHOOSE n \in Range(final_secondary.names) :
                                                    Capitalize(n) = s]]
    /\ pc' = "done"
    /\ events' = Append(events, Event("write", ""))
    /\ UNCHANGED <<config, sec_idx, failure, keygen, evalcall>>

Next ==
    \/ LoadConfig
    \/ LoadPrimary
    \/ LoadPrimaryFails
    \/ LoadSecondary
    \/ LoadSecondaryFails
    \/ SkipSecondary
    \/ PerformMatching
    \/ RemarksSecondary
    \/ RemarksPrimary
    \/ WriteOutput

Spec == Init /\ [][Next]_vars

(***************************************************************************)
(* A single call of generate_composite_keys on a row and a sheet           *)
(* configuration drawn from bounded sets.                                  *)
(***************************************************************************)
\* Marks a column the row does not have
Missing == [t |-> "missing", s |-> <<>>, n |-> 0]

DocAlphabet == {"a", "/", " "}

DocCells ==
    {Str(s) : s \in SeqsUpTo(DocAlphabet, MaxStrLen)} \cup {NaN, None, Num(0), Num(7), Missing}

\* The policy cell and the normalization configured for it ("": none)
PolicyInputs ==
    {[cell |-> Str(<<"p", "(", "e", ")">>), norm |-> "normalize_policy"],
     [cell |-> NaN, norm |-> "extract_document"],
     [cell |-> Num(3), norm |-> ""],
     [cell |-> Str(<<"p", " ">>), norm |-> "clean_text"]}

\* What a configuration may name for a document column: a registered
\* normalization, none (""), or a name the registry does not hold
NormChoices == NORMALIZATION_REGISTRY \cup {"", "clean_text"}

KeygenRow(policy, doc_a, doc_b) ==
    LET cells == [Policy |-> policy, DocA |-> doc_a, doc_b |-> doc_b]
    IN [c \in {c \in DOMAIN cells : cells[c] # Missing} |-> cells[c]]

\* doc_a has an actual name in the column map, doc_b is addressed by its raw name
KeygenConfig(norm_policy, norm_a, norm_b) ==
    LET norms == [policy |-> norm_policy, doc_a |-> norm_a, doc_b |-> norm_b]
    IN [columns |-> [policy |-> "Policy", doc_a |-> "DocA"],
        key_fields |-> [policy_column |-> "policy",
                        document_columns |-> <<"doc_a", "doc_b">>],
        normalizations |-> [l \in {l \in DOMAIN norms : norms[l] # ""} |-> norms[l]]]

InitKeys ==
    /\ PipelineInit
    /\ evalcall = [pc |-> "idle"]
    /\ \E p \in PolicyInputs, doc_a \in DocCells, doc_b \in DocCells,
          norm_a \in NormChoices, norm_b \in NormChoices :
          keygen = [pc |-> "ready",
                    row |-> KeygenRow(p.cell, doc_a, doc_b),
                    sheet_config |-> KeygenConfig(p.norm, norm_a, norm_b),
                    keys |-> <<>>]

GenerateKeys ==
    /\ keygen.pc = "ready"
    /\ keygen' = [keygen EXCEPT !.pc = "returned",
                                !.keys = generate_composite_keys(keygen.row,
                                                                 keygen.sheet_config)]
    /\ UNCHANGED <<pc, config, primary_df, secondary_dfs, sec_idx, output, failure, events,
                   evalcall>>

NextKeys == GenerateKeys

SpecKeys == InitKeys /\ [][NextKeys]_vars

(***************************************************************************)
(* A single call into the remarks evaluator, on inputs drawn from bounded  *)
(* sets: an operand is resolved, the condition list of a rule is           *)
(* evaluated, or the matched row of a row is looked up.  The row under     *)
(* evaluation is a row of the primary sheet; the matched row, when there   *)
(* is one, is a row of an insurer's sheet.                                 *)
(***************************************************************************)
EvalSheet == "faeu"

\* Rows of the sheet under evaluation: a matched row, an unmatched row with an
\* empty premium, and a row of a table that matching has not annotated and
\* whose premium column goes by its logical name
EvalRows ==
    {[Policy |-> Str(<<"p">>), InvA |-> NaN, InvB |-> Str(<<"b">>), Prem |-> Num(5),
      _matched_key |-> Str(<<"p", "|", "b">>), _has_match |-> Bool(TRUE),
      Avail1 |-> Label("Yes")],
     [Policy |-> Str(<<"p">>), InvA |-> NaN, InvB |-> EmptyStr, Prem |-> EmptyStr,
      _matched_key |-> EmptyStr, _has_match |-> Bool(FALSE), Avail1 |-> Label("No")],
     [Policy |-> Str(<<"q">>), InvA |-> NaN, InvB |-> EmptyStr, premium |-> Num(0)]}

\* The matched row handed to the evaluator: None, or a row of an insurer's sheet
EvalMatchedRows ==
    {<<>>,
     <<[Policy |-> Str(<<"p">>), Doc |-> Str(<<"b">>), Amt |-> Num(5),
        Remarks |-> Label("Reconciled")]>>,
     <<[Policy |-> Str(<<"p">>), Doc |-> Str(<<"b">>), Amt |-> EmptyStr]>>}

\* Literal values a configuration may hold (JSON text, numbers, true, null) and NaN
EvalLiterals ==
    {EmptyStr, Num(0), Num(5), Str(<<"5">>), Label("Yes"), None, NaN, Bool(TRUE)}

\* Column references: logical names, actual names, generated columns, and a
\* name no row has
EvalColumnRefs == {"premium", "Prem", "amount", "Amt", "Avail1", "Remarks", "Nope"}

EvalOperands ==
    {Lit(v) : v \in EvalLiterals}
    \cup {OwnCol(c) : c \in EvalColumnRefs}
    \cup {Col(n, c) : n \in {"faeu", "ins1", "ins2"}, c \in EvalColumnRefs}

\* Operands of the equals conditions that are drawn
EqualsOperands ==
    {Lit(v) : v \in EvalLiterals}
    \cup {OwnCol("premium"), OwnCol("Avail1"), Col("ins1", "amount")}

\* Conditions of the rules that are drawn; "matches_regex" is a kind the
\* evaluator does not know, and the last condition has no type
EvalConditions ==
    {[type |-> "has_match"],
     [type |-> "no_match"],
     [type |-> "key_exists_in"],
     [type |-> "not_empty", left |-> OwnCol("premium")],
     [type |-> "matches_regex", left |-> OwnCol("Policy")],
     [type |-> "cross_sheet_or", conditions |-> <<>>],
     [type |-> "cross_sheet_or",
      conditions |-> <<[type |-> "matches_regex", left |-> OwnCol("Policy")]>>],
     [type |-> "cross_sheet_or",
      conditions |-> <<[type |-> "matches_regex", left |-> OwnCol("Policy")],
                       [type |-> "has_match"]>>],
     [left |-> OwnCol("Policy")]}

\* condition_logic of a rule; "" stands for a rule without the field
EvalLogics == {"", "AND", "OR", "XOR"}

EvalRule(conditions, logic) ==
    IF logic = "" THEN [conditions |-> conditions, remark |-> Label("Met")]
    ELSE [conditions |-> conditions, condition_logic |-> logic, remark |-> Label("Met")]

EvalRules ==
    {EvalRule(cs, l) : cs \in SeqsUpTo(EvalConditions, 2), l \in EvalLogics}
    \cup {EvalRule(<<[type |-> "equals", left |-> a, right |-> b]>>, "AND") :
             a \in EqualsOperands, b \in EqualsOperands}

\* The rule declared after the drawn rule, and the default label of the rule set
LaterRule == [conditions |-> <<[type |-> "has_match"]>>, remark |-> Label("Later")]
EvalDefault == Label("Default")

\* df.iterrows() of a table whose rows carry a recorded first-matched key
WithMatchedKey(row, matched_key) ==
    IF matched_key = Missing THEN row ELSE ("_matched_key" :> matched_key) @@ row

ResolveRows ==
    {WithMatchedKey(r, k) :
        r \in PrimaryRowPool,
        k \in {Missing, EmptyStr, Str(<<"p", "|", "b">>), Str(<<"q", "|", "b">>)}}

ResolveTables(sec_name) == {clean_dataframe(f) : f \in SecondaryFiles(sec_name)}

InitEval ==
    /\ PipelineInit
    /\ keygen = [pc |-> "idle"]
    /\ \/ \E operand \in EvalOperands, row \in EvalRows, matched \in EvalMatchedRows :
             evalcall = [pc |-> "ready", kind |-> "operand", operand |-> operand,
                         current_row |-> row, matched_row |-> matched]
       \/ \E rule \in EvalRules, row \in EvalRows, matched \in EvalMatchedRows :
             evalcall = [pc |-> "ready", kind |-> "rule", rule |-> rule,
                         current_row |-> row, matched_row |-> matched]
       \/ \E row \in ResolveRows, t1 \in ResolveTables("ins1"), t2 \in ResolveTables("ins2") :
             evalcall = [pc |-> "ready", kind |-> "resolve", current_row |-> row,
                         names |-> <<"ins1", "ins2">>,
                         tables |-> [ins1 |-> t1, ins2 |-> t2]]

EvalUnchanged ==
    UNCHANGED <<pc, config, primary_df, secondary_dfs, sec_idx, output, failure, events,
                keygen>>

\* get_value_from_operand(operand, current_row, "faeu", ..., matched_row)
ResolveOperand ==
    /\ evalcall.pc = "ready" /\ evalcall.kind = "operand"
    /\ evalcall' = [pc |-> "returned", kind |-> "operand", operand |-> evalcall.operand,
                    current_row |-> evalcall.current_row,
                    matched_row |-> evalcall.matched_row,
                    value |-> get_value_from_operand(evalcall.operand,
                                  evalcall.current_row, EvalSheet, SheetsSection,
                                  evalcall.matched_row)]
    /\ EvalUnchanged

\* One row through the rule loop of apply_remarks_rules, the drawn rule first
EvaluateRule ==
    /\ evalcall.pc = "ready" /\ evalcall.kind = "rule"
    /\ LET rule == evalcall.rule
           row == evalcall.current_row
           matched == evalcall.matched_row
       IN evalcall' =
             [pc |-> "returned", kind |-> "rule", rule |-> rule, current_row |-> row,
              matched_row |-> matched,
              results |-> [i \in DOMAIN rule.conditions |->
                             evaluate_condition(rule.conditions[i], row, EvalSheet,
                                                SheetsSection, matched)],
              satisfied |-> RuleHolds(rule, row, EvalSheet, SheetsSection, matched),
              remark |-> FirstRuleRemark(<<rule, LaterRule>>, EvalDefault, row, EvalSheet,
                                         SheetsSection, matched)]
    /\ EvalUnchanged

\* The matched-row lookup of apply_remarks_rules for one row
ResolveRow ==
    /\ evalcall.pc = "ready" /\ evalcall.kind = "resolve"
    /\ LET key_maps == [n \in Range(evalcall.names) |->
                          build_key_to_row_map(evalcall.tables[n], SheetsSection[n])]
       IN evalcall' =
             [pc |-> "returned", kind |-> "resolve", current_row |-> evalcall.current_row,
              names |-> evalcall.names, tables |-> evalcall.tables,
              matched_row |-> ResolveMatchedRow(evalcall.current_row,
                                  SheetsSection[EvalSheet], evalcall.names, key_maps)]
    /\ EvalUnchanged

NextEval ==
    \/ ResolveOperand
    \/ EvaluateRule
    \/ ResolveRow

SpecEval == InitEval /\ [][NextEval]_vars

(***************************************************************************)
(* Properties of key generation (checked under SpecKeys).                  *)
(***************************************************************************)
Min(S) == CHOOSE x \in S : \A y \in S : x <= y

KeygenDocColumns == keygen.sheet_config.key_fields.document_columns

\* The cell of a document column as the claim sees it: absent from the row,
\* null, or the empty string
KeygenDocCellEmpty(doc_logical) ==
    LET actual == get_column_name(keygen.sheet_config, doc_logical)
    IN \/ actual \notin DOMAIN keygen.row
       \/ IsNa(keygen.row[actual])
       \/ keygen.row[actual] = EmptyStr

\* C4: a row whose every configured document column is empty (absent, null or
\* the empty string) yields zero candidate keys, whatever normalization the
\* sheet configures for its document columns (registered, none, or a name the
\* registry does not hold).
C4_EmptyDocumentsYieldNoKeys ==
    (/\ keygen.pc = "returned"
     /\ \A j \in DOMAIN KeygenDocColumns : KeygenDocCellEmpty(KeygenDocColumns[j]))
    => keygen.keys = <<>>

\* A normalized document component that counts as empty: null or the empty
\* string, and also a numeric zero, which the claim does not speak about and
\* which is read here the way the key generator treats it
EmptyComponent(doc_value) ==
    is_empty_or_null(doc_value) \/ (doc_value.t \in {"num", "bool"} /\ doc_value.n = 0)

\* The pairs C10 describes: one per document column whose normalized value is
\* not empty, in declared order
RECURSIVE PairsOfNonEmpty(_, _, _)
PairsOfNonEmpty(row, sheet_config, doc_columns) ==
    IF doc_columns = <<>> THEN <<>>
    ELSE LET doc_logical == Head(doc_columns)
             doc_value == NormalizedField(row, sheet_config, doc_logical)
             policy_value == NormalizedField(row, sheet_config,
                                             sheet_config.key_fields.policy_column)
             rest == PairsOfNonEmpty(row, sheet_config, Tail(doc_columns))
         IN IF EmptyComponent(doc_value) THEN rest
            ELSE <<[key |-> PyStr(policy_value) \o <<"|">> \o PyStr(doc_value),
                    col |-> get_column_name(sheet_config, doc_logical)]>> \o rest

\* C10: generate_composite_keys returns exactly one (compositeKey,
\* sourceColumnName) pair for each configured document column whose normalized
\* value is non-empty and none for the others, in the declared order of
\* document_columns; the key is the normalized policy component, a "|" and the
\* column's normalized document component, the name is the column's actual name.
C10_OnePairPerNonEmptyDocument ==
    keygen.pc = "returned"
    => keygen.keys = PairsOfNonEmpty(keygen.row, keygen.sheet_config, KeygenDocColumns)

(***************************************************************************)
(* Properties of matching (checked under Spec).                            *)
(***************************************************************************)
PrimaryName == config.matching.primary_sheet

\* Matching has run and its internal columns are still on the primary table
Matched == pc \in {"remarks_secondary", "remarks_primary", "write"}

\* Candidate keys of primary row i
RowKeys(i) == generate_composite_keys(primary_df.rows[i], config.sheets[PrimaryName])

\* Some row of the loaded secondary sheet sec_name generates the key
SheetHasKey(sec_name, key) ==
    \E j \in DOMAIN secondary_dfs.tables[sec_name].rows :
       \E k \in Range(generate_composite_keys(secondary_dfs.tables[sec_name].rows[j],
                                              config.sheets[sec_name])) :
          k.key = key

\* Positions, in priority order, of the candidate keys of row i that sheet
\* sec_name holds
HitsIn(i, sec_name) == {j \in DOMAIN RowKeys(i) : SheetHasKey(sec_name, RowKeys(i)[j].key)}

AvailCol(sec_name) == config.matching.output_columns[sec_name].availability
TransCol(sec_name) == config.matching.output_columns[sec_name].trans_type

\* C1: after perform_matching the availability written for (primary row r,
\* loaded secondary sheet S) is "Yes" if and only if one of r's candidate keys
\* is generated by some row of S, and "No" otherwise; the right-hand side reads
\* only r and the rows of S.
C1_AvailabilityIffKeyInSheet ==
    Matched =>
      \A i \in DOMAIN primary_df.rows : \A n \in Range(secondary_dfs.names) :
         /\ AvailCol(n) \in primary_df.cols
         /\ primary_df.rows[i][AvailCol(n)] =
               IF HitsIn(i, n) # {} THEN Label("Yes") ELSE Label("No")

\* A row that is available against the first insurer's sheet and not against the
\* second one, which holds rows of its own
C1_Witness ==
    /\ Matched
    /\ \E i \in DOMAIN primary_df.rows :
          /\ secondary_dfs.names = <<"ins1", "ins2">>
          /\ secondary_dfs.tables["ins2"].rows # <<>>
          /\ primary_df.rows[i]["Avail1"] = Label("Yes")
          /\ primary_df.rows[i]["Avail2"] = Label("No")

\* C2: the transaction type recorded for (row, S) is the label of the source
\* column of the FIRST candidate key, in declared document-column order, that S
\* holds (the raw column name when the label map has none); later candidate keys
\* held by S do not matter; it is the empty string when S holds none.
C2_TransTypeOfFirstHit ==
    Matched =>
      \A i \in DOMAIN primary_df.rows : \A n \in Range(secondary_dfs.names) :
         LET labels == config.sheets[PrimaryName].trans_type_column_labels
             source == RowKeys(i)[Min(HitsIn(i, n))].col
         IN /\ TransCol(n) \in primary_df.cols
            /\ primary_df.rows[i][TransCol(n)] =
                  IF HitsIn(i, n) = {} THEN EmptyStr
                  ELSE IF source \in DOMAIN labels THEN labels[source]
                  ELSE Str(<<source>>)

\* One row has two candidate keys that the sheet holds, its first one from the
\* labelled column; another row matches through the column without a label
C2_Witness ==
    /\ Matched
    /\ \E i \in DOMAIN primary_df.rows : \E n \in Range(secondary_dfs.names) :
          /\ Cardinality(HitsIn(i, n)) = 2
          /\ primary_df.rows[i][TransCol(n)] = Label("Insurer Invoice")
    /\ \E i \in DOMAIN primary_df.rows : \E n \in Range(secondary_dfs.names) :
          primary_df.rows[i][TransCol(n)] = Label("InvB")

\* Positions, in processing order, of the loaded secondary sheets against which
\* row i is available according to its availability columns
AvailableIn(i) ==
    {j \in DOMAIN secondary_dfs.names :
        primary_df.rows[i][AvailCol(secondary_dfs.names[j])] = Label("Yes")}

\* C9: _has_match is the OR of the row's per-sheet availabilities; _matched_key
\* is the key that matched in the first sheet, in processing order, against
\* which the row is available, and is "" exactly when _has_match is false; a row
\* without candidate keys has _has_match false and _matched_key "".
C9_MatchAggregates ==
    Matched =>
      \A i \in DOMAIN primary_df.rows :
         LET row == primary_df.rows[i]
             first_sheet == secondary_dfs.names[Min(AvailableIn(i))]
         IN /\ row["_has_match"] = Bool(AvailableIn(i) # {})
            /\ (row["_matched_key"] = EmptyStr) <=> (row["_has_match"] = Bool(FALSE))
            /\ AvailableIn(i) # {} =>
                  row["_matched_key"] = Str(RowKeys(i)[Min(HitsIn(i, first_sheet))].key)
            /\ RowKeys(i) = <<>> =>
                  row["_has_match"] = Bool(FALSE) /\ row["_matched_key"] = EmptyStr

\* A row available against both sheets through different keys, and a row
\* available against the second sheet only
C9_Witness ==
    /\ Matched
    /\ \E i \in DOMAIN primary_df.rows :
          /\ AvailableIn(i) = {1, 2}
          /\ RowKeys(i)[Min(HitsIn(i, "ins1"))].key # RowKeys(i)[Min(HitsIn(i, "ins2"))].key
    /\ \E i \in DOMAIN primary_df.rows :
          AvailableIn(i) = {2} /\ primary_df.rows[i]["_matched_key"] # EmptyStr

(***************************************************************************)
(* Properties of remarks evaluation (checked under Spec).                  *)
(***************************************************************************)
\* The matched row apply_remarks_rules resolves for a row of sheet_name, in
\* the current state of the tables
MatchedRowOf(row, sheet_name) ==
    ResolveMatchedRow(row, config.sheets[sheet_name],
                      OtherSheets(SheetsDataNames, sheet_name),
                      KeyMaps(sheet_name, config, SheetsDataNames, SheetsData))

\* Positions of the rules of sheet_name whose condition set is true for the row
SatisfiedRules(row, sheet_name) ==
    LET rules == config.remarks_rules[sheet_name].rules
    IN {j \in DOMAIN rules :
          RuleHolds(rules[j], row, sheet_name, config.sheets, MatchedRowOf(row, sheet_name))}

\* The remark C3 prescribes for a row of sheet_name
PrescribedRemark(row, sheet_name) ==
    LET rules_config == config.remarks_rules[sheet_name]
        satisfied == SatisfiedRules(row, sheet_name)
    IN IF satisfied = {} THEN rules_config.default_remark
       ELSE rules_config.rules[Min(satisfied)].remark

\* The remarks a step wrote to table after agree with the rows of table before
RemarksAsPrescribed(before, after, sheet_name) ==
    LET rules_config == config.remarks_rules[sheet_name]
    IN /\ rules_config.output_column \in after.cols
       /\ Len(after.rows) = Len(before.rows)
       /\ \A i \in DOMAIN before.rows :
             LET remark == after.rows[i][rules_config.output_column]
             IN /\ remark = PrescribedRemark(before.rows[i], sheet_name)
                /\ (remark = rules_config.default_remark)
                      <=> (SatisfiedRules(before.rows[i], sheet_name) = {})

\* C3: every step of apply_remarks_rules writes, for every row of the sheet, the
\* label of the lowest-index rule whose condition set is true for the row, and
\* the default label if and only if no rule is true.
C3_FirstSatisfiedRuleWins ==
    [][/\ pc = "remarks_primary"
          => RemarksAsPrescribed(primary_df, primary_df', PrimaryName)
       /\ (pc = "remarks_secondary"
           /\ secondary_dfs.names[sec_idx] \in DOMAIN config.remarks_rules)
          => RemarksAsPrescribed(secondary_dfs.tables[secondary_dfs.names[sec_idx]],
                                 secondary_dfs'.tables[secondary_dfs.names[sec_idx]],
                                 secondary_dfs.names[sec_idx])]_vars

\* A primary row for which the broad rule and the narrow rule declared after it
\* are both true has received the broad rule's label
C3_Witness ==
    /\ pc = "write"
    /\ config.remarks_rules = RulesA
    /\ \E i \in DOMAIN primary_df.rows :
          /\ SatisfiedRules(primary_df.rows[i], PrimaryName) = {1, 2}
          /\ primary_df.rows[i]["Remarks"] = Label("Available")

(***************************************************************************)
(* Properties of the orchestrator (checked under Spec).                    *)
(***************************************************************************)
EventsWhere(Test(_)) == {j \in DOMAIN events : Test(events[j])}

AllBefore(earlier, later) == \A a \in earlier, b \in later : a < b

DeclaredSecondary == Range(config.matching.secondary_sheets)

\* C5: the phases of a run occur in a fixed order: every sheet is loaded (or
\* skipped) before matching; matching comes before any remarks evaluation; the
\* remarks of every loaded secondary sheet come before those of the primary
\* sheet; the output is written only after the primary sheet's remarks.
C5_PhaseOrder ==
    events # <<>> =>
      LET loads == EventsWhere(LAMBDA e : e.op \in {"load", "skip"})
          match == EventsWhere(LAMBDA e : e.op = "match")
          sec_remarks == EventsWhere(LAMBDA e : e.op = "remarks" /\ e.sheet # PrimaryName)
          prim_remarks == EventsWhere(LAMBDA e : e.op = "remarks" /\ e.sheet = PrimaryName)
          writes == EventsWhere(LAMBDA e : e.op = "write")
          Settled(n) == \E j \in loads : events[j].sheet = n
          Remarked(n) == \E j \in sec_remarks : events[j].sheet = n
      IN /\ AllBefore(loads, match)
         /\ AllBefore(match, sec_remarks \cup prim_remarks)
         /\ AllBefore(sec_remarks, prim_remarks)
         /\ AllBefore(prim_remarks, writes)
         /\ match # {} => Settled(PrimaryName) /\ \A n \in DeclaredSecondary : Settled(n)
         /\ sec_remarks \cup prim_remarks # {} => match # {}
         /\ prim_remarks # {} => \A n \in Range(secondary_dfs.names) : Remarked(n)
         /\ writes # {} => prim_remarks # {}
         /\ output # NoOutput => writes # {}

\* A completed run over two loaded secondary sheets
C5_Witness ==
    /\ pc = "done"
    /\ output # NoOutput
    /\ secondary_dfs.names = <<"ins1", "ins2">>

\* C6: a fatal failure (a configuration lacking a required section, a primary
\* or secondary load that throws) ends the run with nothing written; after a
\* configuration error no sheet has been loaded or processed.
C6_FatalFailureWritesNothing ==
    /\ failure # "none" =>
          /\ pc = "aborted"
          /\ output = NoOutput
          /\ EventsWhere(LAMBDA e : e.op = "write") = {}
    /\ failure = "config" =>
          /\ primary_df = NoTable
          /\ secondary_dfs = EmptyOrderedDict
          /\ events = <<Event("fail", "")>>
    /\ pc = "aborted" => failure # "none"

\* The load of the second secondary sheet threw after two sheets were loaded
C6_Witness ==
    /\ failure = "load"
    /\ pc = "aborted"
    /\ primary_df # NoTable
    /\ secondary_dfs.names = <<"ins1">>

SkippedSheets == {events[j].sheet : j \in EventsWhere(LAMBDA e : e.op = "skip")}

\* C7: a declared secondary sheet without a resolvable table does not abort the
\* run; it is not in secondary_dfs, gets no availability or transaction-type
\* column, no remarks and no output sheet, while the primary sheet and every
\* other secondary sheet are matched, annotated and written.
C7_SkippedSheetLeavesNoTrace ==
    /\ (events # <<>> /\ events[Len(events)].op = "skip")
          => failure = "none" /\ pc \in {"load_secondary", "matching"}
    /\ \A x \in SkippedSheets :
          /\ x \notin Range(secondary_dfs.names)
          /\ x \notin DOMAIN secondary_dfs.tables
          /\ EventsWhere(LAMBDA e : e.op = "remarks" /\ e.sheet = x) = {}
          /\ primary_df # NoTable => primary_df.cols \cap {AvailCol(x), TransCol(x)} = {}
          /\ output # NoOutput => Capitalize(x) \notin DOMAIN output
    /\ pc = "done" =>
          /\ {"Remarks"} \cup {AvailCol(n) : n \in Range(secondary_dfs.names)}
                         \cup {TransCol(n) : n \in Range(secondary_dfs.names)}
                \subseteq output["FAEU"].cols
          /\ DOMAIN output = {"FAEU"} \cup {Capitalize(n) : n \in Range(secondary_dfs.names)}
          /\ DeclaredSecondary = SkippedSheets \cup Range(secondary_dfs.names)
          /\ \A n \in Range(secondary_dfs.names) :
                /\ output[Capitalize(n)] = secondary_dfs.tables[n]
                /\ n \in DOMAIN config.remarks_rules
                      => config.remarks_rules[n].output_column \in output[Capitalize(n)].cols

\* A completed run in which the second insurer's sheet was skipped and a primary
\* row is available against the first
C7_Witness ==
    /\ pc = "done"
    /\ SkippedSheets = {"ins2"}
    /\ secondary_dfs.names = <<"ins1">>
    /\ \E i \in DOMAIN output["FAEU"].rows :
          /\ output["FAEU"].rows[i]["Avail1"] = Label("Yes")
          /\ output["FAEU"].rows[i]["Remarks"] # Label("Not Available")

\* The sheet whose remarks the next step evaluates
SheetUnderEvaluation ==
    IF pc = "remarks_primary" THEN PrimaryName ELSE secondary_dfs.names[sec_idx]

\* Column references a rule may make to a secondary sheet
SecondaryColumnRefs == {"policy", "doc", "amount", "Remarks"}

\* C8: while the remarks of a loaded sheet are evaluated, an operand that names
\* a skipped secondary sheet resolves to absent for every row, whatever the
\* other loaded sheets contain.
C8_SkippedSheetOperandsAbsent ==
    pc \in {"remarks_secondary", "remarks_primary"} =>
      \A x \in SkippedSheets :
         \A i \in DOMAIN SheetsData[SheetUnderEvaluation].rows :
            \A c \in SecondaryColumnRefs :
               LET row == SheetsData[SheetUnderEvaluation].rows[i]
               IN get_value_from_operand(Col(x, c), row, SheetUnderEvaluation,
                      config.sheets, MatchedRowOf(row, SheetUnderEvaluation)) = None

(***************************************************************************)
(* Properties of the condition evaluator (checked under SpecEval).         *)
(***************************************************************************)
OperandCall == evalcall.pc = "returned" /\ evalcall.kind = "operand"
RuleCall == evalcall.pc = "returned" /\ evalcall.kind = "rule"
ResolveCall == evalcall.pc = "returned" /\ evalcall.kind = "resolve"

\* The call evaluated a rule made of one equals condition
EqualsCall ==
    /\ RuleCall
    /\ Len(evalcall.rule.conditions) = 1
    /\ DictGet(evalcall.rule.conditions[1], "type", "") = "equals"

\* The value an operand of the evaluated condition resolved to
EqualsSide(side) ==
    get_value_from_operand(evalcall.rule.conditions[1][side], evalcall.current_row,
                           EvalSheet, SheetsSection, evalcall.matched_row)

\* A numeric value: an int (true and false are ints) or a float (NaN is one)
NumericValue(v) == v.t \in {"num", "bool", "nan"}

\* C11: equals coerces only the left operand, and only when the right
\* operand's value is numeric: the left value is then parsed numerically (empty,
\* absent and unparsable text parse to 0) and compared with the right number;
\* otherwise the raw values are compared for exact equality.  So
\* equals(empty, 0) is true while equals(0, empty) is false.
C11_EqualsCoercesLeftOnly ==
    EqualsCall =>
      LET l == EqualsSide("left")
          r == EqualsSide("right")
          outcome == evalcall.results[1]
      IN /\ NumericValue(r) => (outcome <=> (r.t # "nan" /\ parse_numeric(l) = r.n))
         /\ ~NumericValue(r) => (outcome <=> (l = r))
         /\ (l \in {EmptyStr, None, NaN, Label("Yes")} /\ r = Num(0)) => outcome
         /\ (l = Num(0) /\ r \in {EmptyStr, None}) => ~outcome

\* The empty amount of the matched row was found equal to the literal 0
C11_Witness ==
    /\ EqualsCall
    /\ evalcall.rule.conditions[1].left = Col("ins1", "amount")
    /\ evalcall.rule.conditions[1].right = Lit(Num(0))
    /\ EqualsSide("left") = EmptyStr
    /\ evalcall.results[1] = TRUE

\* The row an operand of the call is resolved against: <<>> when there is none
OperandSourceRow ==
    IF "sheet" \notin DOMAIN evalcall.operand \/ evalcall.operand.sheet = EvalSheet
    THEN <<evalcall.current_row>>
    ELSE evalcall.matched_row

\* The sheet whose logical-to-actual map names the operand's column
OperandSheet ==
    IF "sheet" \in DOMAIN evalcall.operand THEN evalcall.operand.sheet ELSE EvalSheet

\* C16: a literal operand resolves to its literal; a column reference to the
\* current row's sheet (or naming no sheet) resolves against the current row; a
\* reference to another sheet resolves against the supplied matched row, and to
\* absent when none was supplied; the column is looked up under the actual name
\* the referenced sheet's map gives, else under the raw name, and resolves to
\* absent when the row has neither.
C16_OperandResolution ==
    OperandCall =>
      IF "value" \in DOMAIN evalcall.operand
      THEN evalcall.value = evalcall.operand.value
      ELSE LET raw == evalcall.operand.column
               columns == SheetsSection[OperandSheet].columns
               actual == IF raw \in DOMAIN columns THEN columns[raw] ELSE raw
               source == OperandSourceRow
           IN evalcall.value =
                 IF source = <<>> THEN None
                 ELSE IF actual \in DOMAIN source[1] THEN source[1][actual]
                 ELSE IF raw \in DOMAIN source[1] THEN source[1][raw]
                 ELSE None

\* The insurer's amount, addressed by its logical name, was read from the
\* matched row
C16_Witness ==
    /\ OperandCall
    /\ evalcall.operand = Col("ins1", "amount")
    /\ evalcall.matched_row # <<>>
    /\ evalcall.value = Num(5)

\* C17: a rule's conditions are combined per the combinator, for every
\* condition list including the empty one: under OR the rule is satisfied iff
\* at least one condition is true; under AND, without condition_logic and under
\* an unrecognized value, iff every condition is true.
C17_CombinatorOverAllConditions ==
    RuleCall =>
      LET results == evalcall.results
      IN evalcall.satisfied <=>
            IF DictGet(evalcall.rule, "condition_logic", "AND") = "OR"
            THEN \E i \in DOMAIN results : results[i]
            ELSE \A i \in DOMAIN results : results[i]

\* The ten kinds evaluate_condition recognizes
RecognizedKinds ==
    {"equals", "approx_equals", "less_than", "greater_than", "empty", "not_empty",
     "key_exists_in", "has_match", "no_match", "cross_sheet_or"}

KindUnknown(condition) ==
    "type" \notin DOMAIN condition \/ condition.type \notin RecognizedKinds

\* C18: a condition of an unrecognized kind, or without a kind, is false, at
\* the top level of a rule and inside cross_sheet_or alike; evaluation goes on:
\* the other sub-conditions still count, a rule holding such a condition under
\* AND is not satisfied, and the row gets the label of a later rule or the
\* default label.
C18_UnknownKindIsFalse ==
    RuleCall =>
      LET conditions == evalcall.rule.conditions
          under_and == DictGet(evalcall.rule, "condition_logic", "AND") # "OR"
          HasKnownTrue(subs) ==
              \E j \in DOMAIN subs :
                 /\ ~KindUnknown(subs[j])
                 /\ evaluate_condition(subs[j], evalcall.current_row, EvalSheet,
                                       SheetsSection, evalcall.matched_row)
      IN /\ \A i \in DOMAIN conditions :
               /\ KindUnknown(conditions[i]) => evalcall.results[i] = FALSE
               /\ DictGet(conditions[i], "type", "") = "cross_sheet_or"
                     => (evalcall.results[i] <=> HasKnownTrue(conditions[i].conditions))
         /\ (under_and /\ \E i \in DOMAIN conditions : KindUnknown(conditions[i])) =>
               /\ ~evalcall.satisfied
               /\ evalcall.remark =
                     IF DictGet(evalcall.current_row, "_has_match", Bool(FALSE)) = Bool(TRUE)
                     THEN LaterRule.remark ELSE EvalDefault

\* A rule with a true condition and one of an unknown kind was not satisfied,
\* and the row received the later rule's label
C18_Witness ==
    /\ RuleCall
    /\ evalcall.rule.conditions = <<[type |-> "has_match"],
                                    [type |-> "matches_regex", left |-> OwnCol("Policy")]>>
    /\ "condition_logic" \notin DOMAIN evalcall.rule
    /\ evalcall.results = <<TRUE, FALSE>>
    /\ evalcall.remark = LaterRule.remark

\* Candidate keys of the row whose matched row the call resolved
ResolveKeys == generate_composite_keys(evalcall.current_row, SheetsSection[EvalSheet])

\* Row j of the other sheet sec_name produces the key
Produces(sec_name, j, key) ==
    \E k \in Range(generate_composite_keys(evalcall.tables[sec_name].rows[j],
                                           SheetsSection[sec_name])) : k.key = key

HoldsKey(sec_name, key) ==
    \E j \in DOMAIN evalcall.tables[sec_name].rows : Produces(sec_name, j, key)

\* The index entry of sec_name for a key it holds: the earliest row producing it
EntryOf(sec_name, key) ==
    evalcall.tables[sec_name].rows[
        Min({j \in DOMAIN evalcall.tables[sec_name].rows : Produces(sec_name, j, key)})]

\* Positions of the other sheets holding one of the row's candidate keys
SheetsWithHit ==
    {i \in DOMAIN evalcall.names :
        \E k \in DOMAIN ResolveKeys : HoldsKey(evalcall.names[i], ResolveKeys[k].key)}

\* The row's recorded first-matched key: <<>> when it has none or an empty one
RecordedKey ==
    IF /\ "_matched_key" \in DOMAIN evalcall.current_row
       /\ evalcall.current_row["_matched_key"].t = "str"
    THEN evalcall.current_row["_matched_key"].s
    ELSE <<>>

\* C14: the matched row is taken from the first other sheet, in supplied order,
\* whose index holds any candidate key of the row, and is there the entry of the
\* earliest such key in priority order (sheet order before key priority); only
\* if no other sheet holds a candidate key and the row carries a non-empty
\* recorded first-matched key is that key looked up, in the same sheet order;
\* otherwise there is no matched row.
C14_MatchedRowResolution ==
    ResolveCall =>
      evalcall.matched_row =
         IF SheetsWithHit # {}
         THEN LET sec_name == evalcall.names[Min(SheetsWithHit)]
                  k == Min({k \in DOMAIN ResolveKeys : HoldsKey(sec_name, ResolveKeys[k].key)})
              IN <<EntryOf(sec_name, ResolveKeys[k].key)>>
         ELSE LET holders == {i \in DOMAIN evalcall.names :
                                 HoldsKey(evalcall.names[i], RecordedKey)}
              IN IF RecordedKey # <<>> /\ holders # {}
                 THEN <<EntryOf(evalcall.names[Min(holders)], RecordedKey)>>
                 ELSE <<>>

\* No sheet holds a candidate key of the row, and the row's recorded key led to
\* a row of the first insurer's sheet
C14_Witness ==
    /\ ResolveCall
    /\ SheetsWithHit = {}
    /\ RecordedKey = <<"q", "|", "b">>
    /\ evalcall.matched_row # <<>>
    /\ evalcall.matched_row[1]["Policy"] = Str(<<"q">>)

(***************************************************************************)
(* Properties of the remarks engine inside the pipeline (checked under     *)
(* Spec).                                                                  *)
(***************************************************************************)
\* The sheet whose remarks the last step evaluated, "" when the last step was
\* not a remarks evaluation
LastRemarked ==
    IF events # <<>> /\ events[Len(events)].op = "remarks"
    THEN events[Len(events)].sheet ELSE ""

\* C12: applying apply_remarks_rules again to a table it has just annotated,
\* with the same configuration and the same other sheets, gives every row the
\* remark it already has (no rule of the configurations reads the output column
\* of the sheet it annotates).
C12_RemarksIdempotent ==
    (LastRemarked # "" /\ LastRemarked \in DOMAIN config.remarks_rules) =>
       apply_remarks_rules(SheetsData[LastRemarked], LastRemarked, config,
                           SheetsDataNames, SheetsData)
          = SheetsData[LastRemarked]

\* The primary sheet was just annotated, with a rule's label on one row and
\* the default label on another, and a second application changes nothing
C12_Witness ==
    /\ pc = "write"
    /\ LastRemarked = PrimaryName
    /\ \E i, j \in DOMAIN primary_df.rows :
          /\ primary_df.rows[i]["Remarks"] = Label("Available")
          /\ primary_df.rows[j]["Remarks"] = Label("Not Available")
    /\ apply_remarks_rules(primary_df, PrimaryName, config, SheetsDataNames, SheetsData)
          = primary_df

\* Whether row j of the table produces the key under the sheet's configuration
RowProduces(df, sheet_config, j, key) ==
    \E k \in Range(generate_composite_keys(df.rows[j], sheet_config)) : k.key = key

\* The keys produced by the rows of the table
ProducedKeys(df, sheet_config) ==
    {k.key : k \in UNION {Range(generate_composite_keys(df.rows[j], sheet_config)) :
                             j \in DOMAIN df.rows}}

\* The earliest row of the table that produces the key
EarliestProducer(df, sheet_config, key) ==
    Min({j \in DOMAIN df.rows : RowProduces(df, sheet_config, j, key)})

TablesLoaded == pc \in {"matching", "remarks_secondary", "remarks_primary", "write"}

\* C15: the index build_key_to_row_map builds for a sheet maps every key that
\* some row of the sheet produces to the earliest row, in source order, that
\* produces it through any of its document columns; a later row producing the
\* key does not replace the entry; the keys of the index are the keys of the
\* sheet's key set used by matching.
C15_IndexFirstSeenWins ==
    TablesLoaded =>
      \A n \in Range(SheetsDataNames) :
         LET df == SheetsData[n]
             sheet_config == config.sheets[n]
             key_map == build_key_to_row_map(df, sheet_config)
         IN /\ DOMAIN key_map = ProducedKeys(df, sheet_config)
            /\ DOMAIN key_map = SecondaryKeySet(df, sheet_config)
            /\ \A key \in DOMAIN key_map :
                  key_map[key] = df.rows[EarliestProducer(df, sheet_config, key)]

\* Two different rows of the primary table produce the same key, the later one
\* through its first document column, and the index holds the earlier row
C15_Witness ==
    /\ TablesLoaded
    /\ Len(primary_df.rows) = 2
    /\ primary_df.rows[1] # primary_df.rows[2]
    /\ \E key \in ProducedKeys(primary_df, config.sheets[PrimaryName]) :
          /\ RowProduces(primary_df, config.sheets[PrimaryName], 1, key)
          /\ generate_composite_keys(primary_df.rows[2], config.sheets[PrimaryName]) # <<>>
          /\ generate_composite_keys(primary_df.rows[2], config.sheets[PrimaryName])[1].key = key
          /\ build_key_to_row_map(primary_df, config.sheets[PrimaryName])[key]
                = primary_df.rows[1]

\* The output column of a sheet's rule set
RemarksCol(sheet_name) == config.remarks_rules[sheet_name].output_column

\* Labels the rule set of a sheet can assign
RemarkLabels(sheet_name) ==
    {config.remarks_rules[sheet_name].default_remark}
    \cup {r.remark : r \in Range(config.remarks_rules[sheet_name].rules)}

\* The value a cross-sheet operand resolves to while a row of sheet_name is
\* evaluated
CrossOperand(sheet, column, row, sheet_name) ==
    get_value_from_operand(Col(sheet, column), row, sheet_name, config.sheets,
                           MatchedRowOf(row, sheet_name))

\* The first loaded secondary sheet, in processing order, that holds a
\* candidate key of primary row i: the sheet of the row's matched counterpart
CounterpartSheet(i) ==
    secondary_dfs.names[Min({j \in DOMAIN secondary_dfs.names :
                                HitsIn(i, secondary_dfs.names[j]) # {}})]

\* The counterpart of primary row i in the secondary sheet sec_name
CounterpartIn(i, sec_name) ==
    LET df == secondary_dfs.tables[sec_name]
    IN df.rows[EarliestProducer(df, config.sheets[sec_name],
                                RowKeys(i)[Min(HitsIn(i, sec_name))].key)]

\* The primary row that is the counterpart of a secondary row with this key
PrimaryCounterpart(key) ==
    primary_df.rows[EarliestProducer(primary_df, config.sheets[PrimaryName], key)]

\* C13: when the primary sheet's rules are evaluated, an operand naming the
\* remarks column of a secondary sheet resolves, for a primary row whose matched
\* counterpart is a row of that sheet, to the remark Step 2 assigned to that row
\* (not to absent, not to the row before Step 2); when a secondary sheet's rules
\* are evaluated, an operand naming an availability column of the primary sheet
\* resolves to the value matching wrote for the matched primary row.
C13_LaterPhasesReadEarlierOutputs ==
    /\ pc = "remarks_primary" =>
          \A i \in DOMAIN primary_df.rows :
             \A n \in Range(secondary_dfs.names) \cap DOMAIN config.remarks_rules :
                (AvailableIn(i) # {} /\ CounterpartSheet(i) = n) =>
                   LET value == CrossOperand(n, RemarksCol(n), primary_df.rows[i],
                                             PrimaryName)
                   IN /\ value \in RemarkLabels(n)
                      /\ value = CounterpartIn(i, n)[RemarksCol(n)]
    /\ pc = "remarks_secondary" =>
          LET n == SheetUnderEvaluation
              df == secondary_dfs.tables[n]
          IN \A j \in DOMAIN df.rows :
                \A k \in Range(generate_composite_keys(df.rows[j], config.sheets[n])) :
                   k.key \in ProducedKeys(primary_df, config.sheets[PrimaryName]) =>
                      \A m \in Range(secondary_dfs.names) :
                         LET value == CrossOperand(PrimaryName, AvailCol(m), df.rows[j], n)
                         IN /\ value \in {Label("Yes"), Label("No")}
                            /\ value = PrimaryCounterpart(k.key)[AvailCol(m)]
                            /\ m = n => value = Label("Yes")

\* The rule of the primary sheet that reads the first insurer's remark was
\* satisfied by a row, and a row of the second insurer's sheet was labelled
\* from the primary row's availability against the first
C13_Witness ==
    /\ pc = "write"
    /\ config.remarks_rules = RulesC
    /\ secondary_dfs.names = <<"ins1", "ins2">>
    /\ \E i \in DOMAIN primary_df.rows :
          primary_df.rows[i]["Remarks"] = Label("Insurer Reconciled")
    /\ \E j \in DOMAIN secondary_dfs.tables["ins2"].rows :
          secondary_dfs.tables["ins2"].rows[j]["Remarks"] = Label("Also In First")

\* The columns matching may add to the primary table
MatchingOutputs ==
    InternalCols \cup {AvailCol(n) : n \in Range(secondary_dfs.names)}
                 \cup {TransCol(n) : n \in Range(secondary_dfs.names)}

\* C19: perform_matching changes only synthetic outputs: the secondary tables
\* are the same after it as before; the primary table keeps its rows, in
\* order, and the values of every source column; the columns added are the
\* configured availability and transaction-type columns of the loaded sheets
\* and the two aggregate fields.
C19_MatchingFrame ==
    [][pc = "matching" =>
          /\ secondary_dfs' = secondary_dfs
          /\ primary_df.cols \subseteq primary_df'.cols
          /\ Len(primary_df'.rows) = Len(primary_df.rows)
          /\ \A i \in DOMAIN primary_df.rows : \A c \in primary_df.cols :
                primary_df'.rows[i][c] = primary_df.rows[i][c]
          /\ primary_df'.cols \ primary_df.cols = MatchingOutputs
          /\ \A i \in DOMAIN primary_df'.rows : DOMAIN primary_df'.rows[i] = primary_df'.cols]_vars

\* Matching ran over two different primary rows and two loaded secondary
\* sheets that hold rows
C19_Witness ==
    /\ Matched
    /\ Len(primary_df.rows) = 2
    /\ primary_df.rows[1]["Prem"] # primary_df.rows[2]["Prem"]
    /\ MatchingOutputs \subseteq primary_df.cols
    /\ secondary_dfs.names = <<"ins1", "ins2">>
    /\ \A n \in {"ins1", "ins2"} : secondary_dfs.tables[n].rows # <<>>

\* The direct probe of apply_remarks_rules for primary row i
DirectProbe(i) ==
    ProbeSheets(RowKeys(i), OtherSheets(SheetsDataNames, PrimaryName),
                KeyMaps(PrimaryName, config, SheetsDataNames, SheetsData))

\* C20: when the primary sheet's rules are evaluated, a matched counterpart is
\* resolved for a primary row (key_exists_in is true) if and only if the row's
\* has-match flag is true (has_match is true); a row with a non-empty recorded
\* first-matched key is already matched by the direct probe with its candidate
\* keys, so the fallback never changes the counterpart.
C20_CounterpartIffHasMatch ==
    pc = "remarks_primary" =>
      \A i \in DOMAIN primary_df.rows :
         LET row == primary_df.rows[i]
             matched_row == MatchedRowOf(row, PrimaryName)
             Holds(kind) == evaluate_condition([type |-> kind], row, PrimaryName,
                                               config.sheets, matched_row)
         IN /\ (matched_row # <<>>) <=> (row["_has_match"] = Bool(TRUE))
            /\ Holds("key_exists_in") <=> Holds("has_match")
            /\ Holds("key_exists_in") <=> ~Holds("no_match")
            /\ row["_matched_key"] # EmptyStr => DirectProbe(i) # <<>>
            /\ matched_row = DirectProbe(i)

\* One primary row has a counterpart and the flag; another has candidate keys,
\* no counterpart and no flag
C20_Witness ==
    /\ pc = "remarks_primary"
    /\ \E i, j \in DOMAIN primary_df.rows :
          /\ MatchedRowOf(primary_df.rows[i], PrimaryName) # <<>>
          /\ primary_df.rows[i]["_has_match"] = Bool(TRUE)
          /\ RowKeys(j) # <<>>
          /\ MatchedRowOf(primary_df.rows[j], PrimaryName) = <<>>
          /\ primary_df.rows[j]["_has_match"] = Bool(FALSE)

\* Column references a rule may make to another sheet
CrossColumnRefs == {"policy", "doc", "amount", "premium", "Remarks", "Policy", "Amt"}

\* Positions, in priority order, of the candidate keys of a row of sheet_name
\* that some row of the sheet named by the operand produces
KeysHeldBy(named, row, sheet_name) ==
    LET keys == generate_composite_keys(row, config.sheets[sheet_name])
    IN {k \in DOMAIN keys :
           keys[k].key \in ProducedKeys(SheetsData[named], config.sheets[named])}

\* The counterpart, in the sheet named by the operand, of a row of sheet_name
\* that has one
CounterpartInNamed(named, row, sheet_name) ==
    LET keys == generate_composite_keys(row, config.sheets[sheet_name])
        df == SheetsData[named]
    IN df.rows[EarliestProducer(df, config.sheets[named],
                                keys[Min(KeysHeldBy(named, row, sheet_name))].key)]

\* The cell of a row under the operand's column: by the actual name the named
\* sheet's map gives, else by the raw name, else absent
CellOf(named, column, row) ==
    LET columns == config.sheets[named].columns
        actual == IF column \in DOMAIN columns THEN columns[column] ELSE column
    IN IF actual \in DOMAIN row THEN row[actual]
       ELSE IF column \in DOMAIN row THEN row[column]
       ELSE None

\* C21: with two or more sheets other than the one under evaluation, a
\* cross-sheet operand naming sheet S that resolves to a non-absent value was
\* read from the row's counterpart in S, never from a row of another sheet.
C21_CrossOperandReadsNamedSheet ==
    (pc \in {"remarks_secondary", "remarks_primary"} /\ Len(SheetsDataNames) >= 3) =>
      LET sheet_name == SheetUnderEvaluation
      IN \A i \in DOMAIN SheetsData[sheet_name].rows :
            \A named \in Range(OtherSheets(SheetsDataNames, sheet_name)) :
               \A c \in CrossColumnRefs :
                  LET row == SheetsData[sheet_name].rows[i]
                      value == CrossOperand(named, c, row, sheet_name)
                  IN value # None =>
                        /\ KeysHeldBy(named, row, sheet_name) # {}
                        /\ value = CellOf(named, c, CounterpartInNamed(named, row, sheet_name))

====
